---- MODULE Spec2Model ----
(***************************************************************************)
(* Verification model of the notebooks of amazon-bedrock-samples:          *)
(*   - workshops/open-source-l200/05_agent_based_text_generation.ipynb     *)
(*     (tool definitions, call_function, single_retriever_step, the agent  *)
(*     loop),                                                              *)
(*   - rag/.../01-setup-create-insert-dynamodb.ipynb (glossary parser,     *)
(*     table creation and deletion),                                       *)
(*   - genai-use-cases/aws-glue-metadata-generation/...ipynb (setup cells).*)
(* Text is modelled as a sequence of tokens: a literal tag, a run of plain *)
(* text, a run of whitespace, or one XML element.                          *)
(***************************************************************************)
EXTENDS Integers, Sequences, FiniteSets, TLC

VARIABLES
    pc,         \* position of the running cell of the agent notebook
    i,          \* the loop variable of "for i in range(5)"
    next_step,  \* the prompt variable of the agent cells
    output,     \* the stripped model output of the current iteration
    done,       \* the flag returned by single_retriever_step
    log,        \* every model invocation and every dispatched function, in order
    last,       \* what the last call of single_retriever_step did
    table,      \* the DynamoDB table 'glossary-2': absent, CREATING, ACTIVE, DELETING
    place_index,\* whether the place index of the workshop exists
    bucket,     \* whether the S3 bucket of the Glue notebook exists
    database,   \* whether the Glue database 'legislators' exists
    ran,        \* the setup cell or function that ran last, and how it ended
    runs,       \* how many setup cells and functions have run
    glossary,   \* the text handed to convert_glossary_to_dict, as characters
    elements,   \* what convert_glossary_to_dict(glossary) returned or raised
    ins_pc,     \* position of the insert cell b972fb6f
    slept,      \* seconds of time.sleep(10) that have passed
    elapsed,    \* seconds since create_table was accepted
    creation_time, \* seconds DynamoDB takes to make the table ACTIVE
    to_write,   \* how many elements the insert cell writes
    puts,       \* the table status met by each put_item, in order
    scan_pc,    \* position of get_all_terms
    content,    \* the terms of the table's items, in the order a scan meets them
    response,   \* the last response of table.scan
    scan_terms, \* the list 'terms' that get_all_terms builds
    crawl_pc,   \* position of the crawler run cell 7120e6d0 and the listing after it
    crawler,    \* the crawler's own progress with the run asked for by start_crawler
    state,      \* the crawler state read by the last get_crawler
    state_previous, \* the variable of that name of the wait loop
    polls,      \* how many times get_crawler has answered (counted up to MaxPolls)
    listed,     \* the crawler's progress when get_alltables listed the tables
    call_pc,    \* position of one call made through a client of the notebooks
    client,     \* the way the client of that call was built
    failing,    \* how many more attempts of the call the service will fail
    failure,    \* the error the service answers those attempts with
    attempts,   \* attempts of the call sent so far
    prof_pc,    \* the next call of the inference profile cells, 0 when none is run
    profiles,   \* the application inference profiles of the notebook's names that exist
    arns,       \* the profiles whose ..._arn variable has been assigned
    deleted,    \* the profiles delete_inference_profile has deleted
    used_deleted, \* the profiles a call was made with after their deletion
    call_failures, \* how many calls of the profile cells have failed
    parse_pc,   \* position of the response parsing function that is run
    api_response, \* the Bedrock response handed to the parsing function
    parsed_output \* what the parsing function returned

agentVars == <<pc, i, next_step, output, done, log, last>>
setupVars == <<table, place_index, bucket, database, ran, runs>>

glossaryVars == <<glossary, elements>>

insertVars == <<ins_pc, slept, elapsed, creation_time, to_write, puts>>

scanVars == <<scan_pc, content, response, scan_terms>>

crawlVars == <<crawl_pc, crawler, state, state_previous, polls, listed>>

retryVars == <<call_pc, client, failing, failure, attempts>>

profileVars == <<prof_pc, profiles, arns, deleted, used_deleted, call_failures>>

parseVars == <<parse_pc, api_response, parsed_output>>

notInsertVars == <<scanVars, crawlVars, retryVars, profileVars, parseVars>>
notScanVars == <<insertVars, crawlVars, retryVars, profileVars, parseVars>>
notCrawlVars == <<insertVars, scanVars, retryVars, profileVars, parseVars>>
notRetryVars == <<insertVars, scanVars, crawlVars, profileVars, parseVars>>
notProfileVars == <<insertVars, scanVars, crawlVars, retryVars, parseVars>>
notParseVars == <<insertVars, scanVars, crawlVars, retryVars, profileVars>>
dataVars == <<insertVars, scanVars, crawlVars, retryVars, profileVars, parseVars>>

vars == <<agentVars, setupVars, glossaryVars, dataVars>>

(***************************************************************************)
(* Bounds of the model.                                                    *)
(***************************************************************************)
MaxOutLen == 3      \* longest model output, in tokens, of the single-step cell
MaxRuns == 3        \* how many setup cells and functions one behaviour runs
MaxLines == 3       \* most lines of a glossary text
MaxCreationTime == 12 \* longest time, in seconds, DynamoDB takes to create the table
MaxItems == 2       \* most elements written by the insert cell
MaxTableItems == 3  \* most items of the table that get_all_terms scans
MaxCallFailures == 2 \* most calls of the inference profile cells that fail in one run
MaxStreamLen == 3   \* most events of a response stream
MaxFailing == 10    \* most consecutive attempts of one call that the service fails
MaxPolls == 5       \* the count of get_crawler answers stops growing here

(***************************************************************************)
(* Tokens and values.                                                      *)
(***************************************************************************)
Tok(k, n) == [k |-> k, n |-> n, p |-> {}]

T_ANSWER == Tok("tag", "<answer>")
T_ANSWER_END == Tok("tag", "</answer>")
T_FUNCTION_CALLS == Tok("tag", "<function_calls>")
T_FUNCTION_CALLS_END == Tok("tag", "</function_calls>")
T_WS == Tok("ws", " ")
T_TEXT == Tok("text", "words")

\* a str value of a parsed XML document (tags inside it were escaped in the XML)
Str(toks) == [isdict |-> FALSE, toks |-> toks, kw |-> {}]
\* a dict value of a parsed XML document: a set of key/value entries
Dict(kw) == [isdict |-> TRUE, toks |-> <<>>, kw |-> kw]
Name(n) == Str(<<Tok("text", n)>>)
Entry(key, val) == [key |-> key, val |-> val]

\* one XML element <root>...</root> with the children xmltodict turns into a dict
Xml(root, kw) == [k |-> "xml", n |-> root, p |-> kw]
\* <invoke><tool_name>n</tool_name><parameters>...</parameters></invoke>
InvokeXml(tool, kw) ==
    Xml("invoke", {Entry("tool_name", Name(tool)), Entry("parameters", Dict(kw))})

Keys(kw) == {e.key : e \in kw}
Get(kw, key) == (CHOOSE e \in kw : e.key = key).val

\* the str a value names, when it is a plain word
StrName(v) ==
    IF ~v.isdict /\ Len(v.toks) = 1 /\ v.toks[1].k = "text" THEN v.toks[1].n ELSE "?"

(***************************************************************************)
(* str.split, str.strip and the "in" test, on token sequences.             *)
(***************************************************************************)
Contains(s, t) == \E j \in 1..Len(s) : s[j] = t

\* index of the first occurrence of t in s at or after position from, else 0
FirstIndex(s, t, from) ==
    IF \E j \in from..Len(s) : s[j] = t
    THEN CHOOSE j \in from..Len(s) : s[j] = t /\ \A m \in from..(j - 1) : s[m] # t
    ELSE 0

\* s.split(t)[0]
SplitHead(s, t) ==
    LET a == FirstIndex(s, t, 1)
    IN IF a = 0 THEN s ELSE SubSeq(s, 1, a - 1)

\* s.split(t)[1], defined when t occurs in s
SplitSecond(s, t) ==
    LET a == FirstIndex(s, t, 1)
        b == FirstIndex(s, t, a + 1)
    IN IF b = 0 THEN SubSeq(s, a + 1, Len(s)) ELSE SubSeq(s, a + 1, b - 1)

RECURSIVE LStrip(_)
LStrip(s) == IF s # <<>> /\ Head(s).k = "ws" THEN LStrip(Tail(s)) ELSE s

RECURSIVE RStrip(_)
RStrip(s) ==
    IF s # <<>> /\ s[Len(s)].k = "ws" THEN RStrip(SubSeq(s, 1, Len(s) - 1)) ELSE s

Strip(s) == RStrip(LStrip(s))

(***************************************************************************)
(* Results of a call: a normal return or a raised exception, with the      *)
(* events (model invocations, dispatched functions) the call produced.     *)
(***************************************************************************)
Ok(val, repr, ev) == [st |-> "ok", val |-> val, repr |-> repr, ev |-> ev, exc |-> "none"]
Raise(exc, ev) == [st |-> "raise", val |-> <<>>, repr |-> "", ev |-> ev, exc |-> exc]

\* client.invoke_model(...) was issued; func(**parameters) entered function fn
ModelEv == [ev |-> "model", fn |-> "invoke_model", kw |-> {}]
CallEv(fn, kw) == [ev |-> "call", fn |-> fn, kw |-> kw]

\* what the services outside the notebook do during one step
Envs ==
    [place_found : BOOLEAN, weather_ok : BOOLEAN, model_ok : BOOLEAN,
     tool_model_ok : BOOLEAN]

(***************************************************************************)
(* The tools and call_function (cell e8bb0dd6), invoke_model and           *)
(* single_retriever_step (cell 59df5a7e).                                  *)
(***************************************************************************)
\* the bare except turns every failure of the search into the point (0, 0)
get_lat_long(place, env) ==
    IF env.place_found /\ ~place.isdict
    THEN Ok("coords", "{'latitude': lat, 'longitude': lon}", <<>>)
    ELSE Ok("zero", "{'latitude': '0', 'longitude': '0'}", <<>>)

\* requests.get and response.json() are not guarded
get_weather(latitude, longitude, env) ==
    IF env.weather_ok
    THEN Ok("weather", "{'current_weather': ...}", <<>>)
    ELSE Raise("RequestException", <<>>)

invoke_model(prompt, ok) ==
    IF ok
    THEN Ok("completion", "completion", <<ModelEv>>)
    ELSE Raise("ClientError", <<ModelEv>>)

\* the names globals() holds when the agent cells run: the functions the
\* notebook defines, and (one representative of) its plain variables
GlobalFunctions ==
    {"get_lat_long", "get_weather", "call_function", "invoke_model",
     "single_retriever_step"}
GlobalVariables == {"place_index_name"}
GlobalNames == GlobalFunctions \cup GlobalVariables

\* the keyword parameters each function requires
Signature(fn) ==
    CASE fn = "get_lat_long" -> {"place"}
      [] fn = "get_weather" -> {"latitude", "longitude"}
      [] fn = "call_function" -> {"tool_name", "parameters"}
      [] fn = "invoke_model" -> {"prompt"}
      [] fn = "single_retriever_step" -> {"prompt", "output"}
      [] OTHER -> {}

\* '\n\nHuman: ...<function_results>\n{func_response}\n</function_results>...Assistant:'
FuncResponseStr(repr) ==
    << Tok("text", "Human: Here is the result from your function call"),
       Tok("tag", "<function_results>"),
       Tok("result", repr),
       Tok("tag", "</function_results>"),
       Tok("text", "If you know the answer, say it. If not, what is the next step? Assistant:") >>

\* mutant: the [1] after the first split is forgotten
AnswerOf_NoIndex(out) == SplitHead(out, T_ANSWER_END)

\* output.split('<answer>')[1].split('</answer>')[0]
AnswerOf(out) == SplitHead(SplitSecond(out, T_ANSWER), T_ANSWER_END)

\* mutant: the [1] after the first split is forgotten
FunctionXmlOf_NoIndex(out) == SplitHead(out, T_FUNCTION_CALLS_END)

\* output.split('<function_calls>')[1].split('</function_calls>')[0]
FunctionXmlOf(out) == SplitHead(SplitSecond(out, T_FUNCTION_CALLS), T_FUNCTION_CALLS_END)

\* xmltodict.parse: the text must be exactly one element (whitespace around it
\* is allowed); the result maps the root's name to the dict of its children
XmlParse(function_xml) ==
    LET x == Strip(function_xml)
    IN IF Len(x) = 1 /\ x[1].k = "xml"
       THEN Ok(x[1], "function_dict", <<>>)
       ELSE Raise("ExpatError", <<>>)

\* mutant: a missing block is answered by handing the prompt back
SplitIndexError_Recover(prompt) ==
    [st |-> "ok", val |-> [done |-> FALSE, ret |-> prompt, func_response |-> ""],
     repr |-> "(False, prompt)", ev |-> <<>>, exc |-> "none"]

\* output.split('<function_calls>')[1] when output holds no '<function_calls>':
\* the list has one element and [1] raises IndexError
SplitIndexError(prompt) == Raise("IndexError", <<>>)

\* mutant: a function call in the output is served before the answer is looked at
AnswerGiven_UnlessToolCall(out) == Contains(out, T_ANSWER) /\ ~Contains(out, T_FUNCTION_CALLS)

\* if '<answer>' in output
AnswerGiven(out) == Contains(out, T_ANSWER)

RECURSIVE call_function(_, _, _)
RECURSIVE single_retriever_step(_, _, _)

\* func(**parameters) for a function of the notebook
ApplyGlobal(fn, kw, env) ==
    CASE fn = "get_lat_long" -> get_lat_long(Get(kw, "place"), env)
      [] fn = "get_weather" ->
            get_weather(Get(kw, "latitude"), Get(kw, "longitude"), env)
      [] fn = "invoke_model" -> invoke_model(Get(kw, "prompt"), env.tool_model_ok)
      [] fn = "call_function" ->
            call_function(Get(kw, "tool_name"), Get(kw, "parameters"), env)
      [] fn = "single_retriever_step" ->
            LET prompt == Get(kw, "prompt")
                out == Get(kw, "output")
            IN IF out.isdict
               THEN Raise("AttributeError", <<>>)
               ELSE LET r == single_retriever_step(prompt.toks, out.toks, env)
                    IN IF r.st = "ok" /\ ~r.val.done /\ prompt.isdict
                       THEN Raise("TypeError", r.ev)
                       ELSE r

\* func = globals()[tool_name]; output = func(**parameters); return output
call_function(tool_name, parameters, env) ==
    IF tool_name.isdict THEN Raise("TypeError", <<>>)
    ELSE IF StrName(tool_name) \notin GlobalNames THEN Raise("KeyError", <<>>)
    ELSE IF \/ ~parameters.isdict
            \/ StrName(tool_name) \notin GlobalFunctions
            \/ Keys(parameters.kw) # Signature(StrName(tool_name))
         THEN Raise("TypeError", <<>>)
    ELSE LET fn == StrName(tool_name)
             r == ApplyGlobal(fn, parameters.kw, env)
         IN [r EXCEPT !.ev = <<CallEv(fn, parameters.kw)>> \o r.ev]

single_retriever_step(prompt, out, env) ==
    IF AnswerGiven(out)
    THEN Ok([done |-> TRUE, ret |-> AnswerOf(out), func_response |-> ""],
            "(True, answer)", <<>>)
    ELSE IF ~Contains(out, T_FUNCTION_CALLS) THEN SplitIndexError(prompt)
    ELSE LET parsed == XmlParse(FunctionXmlOf(out))
         IN IF parsed.st = "raise" THEN parsed
            ELSE IF \/ parsed.val.n # "invoke"
                    \/ "tool_name" \notin Keys(parsed.val.p)
                    \/ "parameters" \notin Keys(parsed.val.p)
                 THEN Raise("KeyError", <<>>)
            ELSE LET func_name == Get(parsed.val.p, "tool_name")
                     parameters == Get(parsed.val.p, "parameters")
                     func_response == call_function(func_name, parameters, env)
                 IN IF func_response.st = "raise" THEN func_response
                    ELSE Ok([done |-> FALSE,
                             ret |-> prompt \o out \o FuncResponseStr(func_response.repr),
                             func_response |-> func_response.repr],
                            "(False, prompt)", func_response.ev)

(***************************************************************************)
(* The cells that run the agent: the single-step cell ce14d5de and the     *)
(* loop cell d1ff52cb.                                                     *)
(***************************************************************************)
\* TOOL_PROMPT.format(tools_string=tools_string, user_input=user_input)
TOOL_PROMPT == <<Tok("text", "TOOL_TEMPLATE")>>

NoStep == [prompt |-> <<>>, out |-> <<>>, res |-> Raise("none", <<>>)]

\* for i in range(5)
LoopRange == 5

CallLatLong == InvokeXml("get_lat_long", {Entry("place", Name("Las Vegas"))})
CallWeather ==
    InvokeXml("get_weather",
              {Entry("latitude", Name("36.1")), Entry("longitude", Name("-115.1"))})
CallWeatherShort == InvokeXml("get_weather", {Entry("latitude", Name("36.1"))})
CallUndefined == InvokeXml("get_time", {Entry("place", Name("Las Vegas"))})
CallVariable == InvokeXml("place_index_name", {Entry("place", Name("Las Vegas"))})
CallInvokeModel == InvokeXml("invoke_model", {Entry("prompt", Name("Hello"))})
CallCallFunction ==
    InvokeXml("call_function",
              {Entry("tool_name", Name("get_lat_long")),
               Entry("parameters", Dict({Entry("place", Name("Las Vegas"))}))})
CallStepCall ==
    InvokeXml("single_retriever_step",
              {Entry("prompt", Name("Hello")),
               Entry("output", Str(<<T_FUNCTION_CALLS, CallLatLong, T_FUNCTION_CALLS_END>>))})
OtherXml == Xml("tool", {Entry("tool_name", Name("get_lat_long"))})

InvokeElements == {CallLatLong, CallWeather, CallUndefined, CallInvokeModel, CallStepCall}

\* the tokens a completion of the single-step cell is made of
StepAlphabet ==
    {T_ANSWER, T_ANSWER_END, T_FUNCTION_CALLS, T_FUNCTION_CALLS_END, T_TEXT, T_WS,
     OtherXml} \cup InvokeElements

SeqsUpTo(S, n) == UNION {[1..m -> S] : m \in 0..n}

StepCompletions == SeqsUpTo(StepAlphabet, MaxOutLen)

Block(x) == <<T_FUNCTION_CALLS, x, T_FUNCTION_CALLS_END>>

\* the completions the model of the loop cell chooses from
LoopCompletions ==
    { <<T_TEXT>> \o Block(CallLatLong),
      <<T_WS, T_TEXT>> \o Block(CallWeather) \o <<T_WS>>,
      <<T_ANSWER, T_TEXT, T_ANSWER_END>>,
      <<T_TEXT>>,
      Block(CallUndefined),
      Block(CallInvokeModel),
      Block(CallCallFunction),
      Block(CallWeatherShort),
      Block(CallVariable),
      <<T_ANSWER, T_TEXT, T_ANSWER_END>> \o Block(CallLatLong),
      Block(CallWeather) \o <<T_ANSWER, T_TEXT, T_ANSWER_END>> }

\* output = invoke_model(next_step).strip()
\* done, next_step = single_retriever_step(next_step, output)
\* An exception leaves the cell at once: what is not yet assigned keeps its value.
StepLines(raw, env, pcDone, pcMore) ==
    LET m == invoke_model(Str(next_step), env.model_ok)
        out == Strip(raw)
        r == single_retriever_step(next_step, out, env)
    IN IF m.st = "raise"
       THEN /\ pc' = "aborted"
            /\ log' = log \o m.ev
            /\ UNCHANGED <<output, done, next_step, last>>
       ELSE /\ output' = out
            /\ log' = log \o m.ev \o r.ev
            /\ last' = [prompt |-> next_step, out |-> out, res |-> r]
            /\ IF r.st = "raise"
               THEN pc' = "aborted" /\ UNCHANGED <<done, next_step>>
               ELSE /\ done' = r.val.done
                    /\ next_step' = r.val.ret
                    /\ pc' = IF r.val.done THEN pcDone ELSE pcMore

\* cell ce14d5de: one step, then display
StepCell ==
    /\ pc = "cell"
    /\ \E raw \in StepCompletions, env \in Envs : StepLines(raw, env, "displayed", "displayed")
    /\ UNCHANGED <<i, setupVars, glossaryVars, dataVars>>

\* cell d1ff52cb: the body of the loop, with its break and the end of range(5)
LoopAfter == IF i + 1 < LoopRange THEN "loop" ELSE "exhausted"

LoopIteration ==
    /\ pc = "loop"
    /\ i < LoopRange
    /\ \E raw \in LoopCompletions, env \in Envs : StepLines(raw, env, "done", LoopAfter)
    /\ i' = IF pc' \in {"loop", "exhausted"} THEN i + 1 ELSE i
    /\ UNCHANGED <<setupVars, glossaryVars, dataVars>>

AgentInit(start) ==
    /\ pc = start
    /\ i = 0
    /\ next_step = TOOL_PROMPT
    /\ output = <<>>
    /\ done = FALSE
    /\ log = <<>>
    /\ last = NoStep


(***************************************************************************)
(* The setup cells: what the services answer, and what each cell's         *)
(* handler makes of the answer.                                            *)
(***************************************************************************)
\* error codes of botocore.exceptions.ClientError
ClientErrorCodes ==
    {"ResourceInUseException", "ConflictException", "ResourceNotFoundException",
     "AccessDeniedException"}
\* failures that are no ClientError (no response reached the client)
OtherFailures == {"EndpointConnectionError"}
\* failures a service call can end with whatever the state of the resource
AnyTimeFailures == {"AccessDeniedException", "EndpointConnectionError"}

Completed(ret, printed) ==
    [outcome |-> "completed", exc |-> "none", ret |-> ret, printed |-> printed]
Raised(exc) == [outcome |-> "raised", exc |-> exc, ret |-> "", printed |-> ""]

NoRun ==
    [cell |-> "none", failed |-> "none", outcome |-> "none", exc |-> "none",
     ret |-> "", printed |-> ""]
Ran(cell, resp, o) ==
    [cell |-> cell, failed |-> IF resp = "ok" THEN "none" ELSE resp,
     outcome |-> o.outcome, exc |-> o.exc, ret |-> o.ret, printed |-> o.printed]

SetupIdle ==
    /\ table = "absent"
    /\ place_index = FALSE
    /\ bucket = FALSE
    /\ database = FALSE
    /\ ran = NoRun
    /\ runs = 0

\* dynamodb.create_table / location.create_place_index / glue.create_database:
\* a resource that exists is refused with the service's "exists" code
CreateResponses(exists, existsCode) ==
    (IF exists THEN {existsCode} ELSE {"ok"}) \cup AnyTimeFailures

\* mutant: the else branch with its raise is missing
TableCreationHandler_NoReraise(resp) ==
    IF resp = "ok" THEN Completed("", "table_response")
    ELSE Completed("", "Table glossary-2 already exists. Skipping creation.")

\* mutant: the code compared with is the one of a missing table
TableCreationHandler_WrongCode(resp) ==
    IF resp = "ok" THEN Completed("", "table_response")
    ELSE IF resp \in ClientErrorCodes /\ resp = "ResourceNotFoundException"
         THEN Completed("", "Table glossary-2 already exists. Skipping creation.")
         ELSE Raised(resp)

\* cell 332fafa1: try create_dynamo_table / except ClientError: code check / raise
TableCreationHandler(resp) ==
    IF resp = "ok" THEN Completed("", "table_response")
    ELSE IF resp \in ClientErrorCodes
         THEN IF resp = "ResourceInUseException"
              THEN Completed("", "Table glossary-2 already exists. Skipping creation.")
              ELSE Raised(resp)
         ELSE Raised(resp)

TableCreationCell ==
    /\ runs < MaxRuns
    /\ \E resp \in CreateResponses(table # "absent", "ResourceInUseException") :
         /\ table' = IF resp = "ok" THEN "CREATING" ELSE table
         /\ ran' = Ran("table_creation", resp, TableCreationHandler(resp))
    /\ runs' = runs + 1
    /\ UNCHANGED <<place_index, bucket, database, agentVars, glossaryVars, dataVars>>

\* cell e8bb0dd6: try create_place_index / except ConflictException: pass
PlaceIndexHandler(resp) ==
    IF resp = "ok" \/ resp = "ConflictException" THEN Completed("", "") ELSE Raised(resp)

PlaceIndexCell ==
    /\ runs < MaxRuns
    /\ \E resp \in CreateResponses(place_index, "ConflictException") :
         /\ place_index' = (place_index \/ resp = "ok")
         /\ ran' = Ran("place_index_creation", resp, PlaceIndexHandler(resp))
    /\ runs' = runs + 1
    /\ UNCHANGED <<table, bucket, database, agentVars, glossaryVars, dataVars>>

\* cell 525ce45d: try create_bucket / except Exception as e: print
BucketHandler(resp) ==
    IF resp = "ok" THEN Completed("", "Bucket created successfully.")
    ELSE Completed("", "Error creating bucket")

BucketCell ==
    /\ runs < MaxRuns
    /\ \E resp \in {"ok"} \cup AnyTimeFailures :
         /\ bucket' = (bucket \/ resp = "ok")
         /\ ran' = Ran("bucket_creation", resp, BucketHandler(resp))
    /\ runs' = runs + 1
    /\ UNCHANGED <<table, place_index, database, agentVars, glossaryVars, dataVars>>

\* cell 4a68844e: glue_client.create_database, no handler
DatabaseHandler(resp) ==
    IF resp = "ok" THEN Completed("", "AWS Glue database created succesfully.")
    ELSE Raised(resp)

DatabaseCell ==
    /\ runs < MaxRuns
    /\ \E resp \in CreateResponses(database, "AlreadyExistsException") :
         /\ database' = (database \/ resp = "ok")
         /\ ran' = Ran("database_creation", resp, DatabaseHandler(resp))
    /\ runs' = runs + 1
    /\ UNCHANGED <<table, place_index, bucket, agentVars, glossaryVars, dataVars>>

\* what a call of a tool function makes of its external call
ToolOutcome(r) == IF r.st = "ok" THEN Completed(r.repr, "") ELSE Raised(r.exc)

\* get_lat_long('Las Vegas') with the place index search succeeding or failing
GetLatLongCall ==
    /\ runs < MaxRuns
    /\ \E env \in Envs :
         ran' = Ran("get_lat_long",
                    IF env.place_found THEN "ok" ELSE "ResourceNotFoundException",
                    ToolOutcome(get_lat_long(Name("Las Vegas"), env)))
    /\ runs' = runs + 1
    /\ UNCHANGED <<table, place_index, bucket, database, agentVars, glossaryVars, dataVars>>

\* get_weather(lat, lon) with the HTTP request succeeding or failing
GetWeatherCall ==
    /\ runs < MaxRuns
    /\ \E env \in Envs :
         ran' = Ran("get_weather",
                    IF env.weather_ok THEN "ok" ELSE "RequestException",
                    ToolOutcome(get_weather(Name("36.1"), Name("-115.1"), env)))
    /\ runs' = runs + 1
    /\ UNCHANGED <<table, place_index, bucket, database, agentVars, glossaryVars, dataVars>>

\* the names module boto3.exceptions defines; ClientError lives in
\* botocore.exceptions and is not among them
Boto3ExceptionsNames ==
    {"Boto3Error", "ResourceLoadException", "NoVersionFound", "UnknownAPIVersionError",
     "ResourceNotExistsError", "RetriesExceededError", "S3TransferFailedError",
     "S3UploadFailedError", "DynamoDBOperationNotSupportedError",
     "DynamoDBNeedsConditionError", "DynamoDBNeedsKeyConditionError",
     "PythonDeprecationWarning"}

\* delete_dynamodb_table: try delete_table, wait / except boto3.exceptions.ClientError.
\* The class of the except clause is looked up when an exception arrives there.
delete_dynamodb_table(resp) ==
    IF resp = "ok" THEN Completed("response", "Table glossary-2 has been successfully deleted.")
    ELSE IF "ClientError" \notin Boto3ExceptionsNames THEN Raised("AttributeError")
    ELSE IF resp \in ClientErrorCodes
         THEN IF resp = "ResourceNotFoundException"
              THEN Completed("None", "Table glossary-2 does not exist.")
              ELSE Completed("None", "Error deleting table")
         ELSE Raised(resp)

\* delete_table is refused for a table that does not exist; the waiter returns
\* once the table is gone, or gives up (WaiterError) while it is still DELETING
DeleteResponses == (IF table = "absent" THEN {"ResourceNotFoundException"}
                    ELSE {"ok", "WaiterError"}) \cup AnyTimeFailures

DeleteTableCall ==
    /\ runs < MaxRuns
    /\ \E resp \in DeleteResponses :
         /\ table' = CASE resp = "ok" -> "absent"
                       [] resp = "WaiterError" -> "DELETING"
                       [] OTHER -> table
         /\ ran' = Ran("delete_dynamodb_table", resp, delete_dynamodb_table(resp))
    /\ runs' = runs + 1
    /\ UNCHANGED <<place_index, bucket, database, agentVars, glossaryVars, dataVars>>

\* DynamoDB finishes creating or deleting the table on its own
TableBecomesActive ==
    /\ table = "CREATING"
    /\ table' = "ACTIVE"
    /\ UNCHANGED <<place_index, bucket, database, ran, runs, agentVars, glossaryVars, dataVars>>

TableDeletionCompletes ==
    /\ table = "DELETING"
    /\ table' = "absent"
    /\ UNCHANGED <<place_index, bucket, database, ran, runs, agentVars, glossaryVars, dataVars>>

(***************************************************************************)
(* convert_glossary_to_dict (cell 128a6ecd) on text as a sequence of       *)
(* characters.                                                             *)
(***************************************************************************)
NL == "\n"
Whitespace == {" ", NL}

\* str.lower(), character by character
LowerChar(c) == IF c = "A" THEN "a" ELSE IF c = "B" THEN "b" ELSE c

\* mutant: the term is stored as written
Lower_AsWritten(s) == s

Lower(s) == [j \in 1..Len(s) |-> LowerChar(s[j])]

\* whether sep occurs in s at position j
OccursAt(s, sep, j) ==
    /\ j >= 1
    /\ j + Len(sep) - 1 <= Len(s)
    /\ SubSeq(s, j, j + Len(sep) - 1) = sep

\* str.split(sep): cut at the occurrences of sep, found left to right
RECURSIVE SplitStr(_, _)
SplitStr(s, sep) ==
    IF \E j \in 1..Len(s) : OccursAt(s, sep, j)
    THEN LET j == CHOOSE k \in 1..Len(s) :
                    OccursAt(s, sep, k) /\ \A m \in 1..(k - 1) : ~OccursAt(s, sep, m)
         IN <<SubSeq(s, 1, j - 1)>> \o SplitStr(SubSeq(s, j + Len(sep), Len(s)), sep)
    ELSE <<s>>

\* str.strip()
RECURSIVE StripStr(_)
StripStr(s) ==
    IF s # <<>> /\ Head(s) \in Whitespace THEN StripStr(Tail(s))
    ELSE IF s # <<>> /\ s[Len(s)] \in Whitespace THEN StripStr(SubSeq(s, 1, Len(s) - 1))
    ELSE s

\* the body of the for loop over glossary.split('\n'), from the terms so far
RECURSIVE GlossaryLoop(_, _)
GlossaryLoop(lines, terms) ==
    IF lines = <<>> THEN [st |-> "ok", terms |-> terms]
    ELSE LET line == StripStr(Head(lines))
             terms_def == SplitStr(line, <<":", " ">>)
         IN IF line = <<>> THEN GlossaryLoop(Tail(lines), terms)
            ELSE IF Len(terms_def) < 2 THEN [st |-> "IndexError", terms |-> terms]
            ELSE LET current_term == Lower(terms_def[1])
                     current_definition == terms_def[2]
                 IN IF current_term # <<>>
                    THEN GlossaryLoop(Tail(lines),
                             Append(terms, [term |-> Lower(current_term),
                                            term_definition |-> current_definition]))
                    ELSE GlossaryLoop(Tail(lines), terms)

convert_glossary_to_dict(g) == GlossaryLoop(SplitStr(g, <<NL>>), <<>>)

NotParsed == [st |-> "none", terms |-> <<>>]

GlossaryIdle == glossary = <<>> /\ elements = NotParsed

\* cell 76563554: elements = convert_glossary_to_dict(sample_glossary)
GlossaryCell ==
    /\ pc = "glossary"
    /\ elements' = convert_glossary_to_dict(glossary)
    /\ pc' = "parsed"
    /\ UNCHANGED <<glossary, i, next_step, output, done, log, last, setupVars, dataVars>>

(***************************************************************************)
(* The insert cell b972fb6f after the table creation cell, with time in    *)
(* seconds: DynamoDB accepts create_table at once and makes the table      *)
(* ACTIVE creation_time seconds later.                                     *)
(***************************************************************************)
SleepSeconds == 10

InsertIdle ==
    /\ ins_pc = "idle"
    /\ slept = 0
    /\ elapsed = 0
    /\ creation_time = 0
    /\ to_write = 0
    /\ puts = <<>>

\* one second passes for the table being created
TableAfterSecond ==
    IF table = "CREATING"
    THEN /\ elapsed' = elapsed + 1
         /\ table' = IF elapsed + 1 >= creation_time THEN "ACTIVE" ELSE "CREATING"
    ELSE UNCHANGED <<table, elapsed>>

\* time between the end of the creation cell and the start of the insert cell
BetweenCellsSecond ==
    /\ ins_pc = "idle"
    /\ table = "CREATING"
    /\ TableAfterSecond
    /\ UNCHANGED <<ins_pc, slept, creation_time, to_write, puts>>
    /\ UNCHANGED <<place_index, bucket, database, ran, runs, agentVars, glossaryVars, notInsertVars>>

\* dynamodb = boto3.resource('dynamodb'); table = dynamodb.Table(table_name):
\* no request is made; the cell is run once the creation cell has completed
InsertCellBegin ==
    /\ ins_pc = "idle"
    /\ ran.cell = "table_creation" /\ ran.outcome = "completed"
    /\ ins_pc' = "sleeping"
    /\ UNCHANGED <<slept, elapsed, creation_time, to_write, puts>>
    /\ UNCHANGED <<setupVars, agentVars, glossaryVars, notInsertVars>>

\* time.sleep(10), second by second
InsertSleepSecond ==
    /\ ins_pc = "sleeping"
    /\ slept < SleepSeconds
    /\ slept' = slept + 1
    /\ TableAfterSecond
    /\ UNCHANGED <<ins_pc, creation_time, to_write, puts>>
    /\ UNCHANGED <<place_index, bucket, database, ran, runs, agentVars, glossaryVars, notInsertVars>>

\* write_items_ddb(elements): with table.batch_writer() as batch
WriteItemsBegin ==
    /\ ins_pc = "sleeping"
    /\ slept = SleepSeconds
    /\ ins_pc' = "writing"
    /\ UNCHANGED <<slept, elapsed, creation_time, to_write, puts>>
    /\ UNCHANGED <<setupVars, agentVars, glossaryVars, notInsertVars>>

\* batch.put_item(Item=element) reaching the table: a table that is not
\* ACTIVE refuses the write with ResourceNotFoundException
BatchPutItem ==
    /\ ins_pc = "writing"
    /\ Len(puts) < to_write
    /\ puts' = Append(puts, table)
    /\ ins_pc' = IF table = "ACTIVE" THEN "writing" ELSE "raised"
    /\ UNCHANGED <<slept, elapsed, creation_time, to_write>>
    /\ UNCHANGED <<setupVars, agentVars, glossaryVars, notInsertVars>>

\* print("Elements inserted successfully."); return 0
WriteItemsReturn ==
    /\ ins_pc = "writing"
    /\ Len(puts) = to_write
    /\ ins_pc' = "inserted"
    /\ UNCHANGED <<slept, elapsed, creation_time, to_write, puts>>
    /\ UNCHANGED <<setupVars, agentVars, glossaryVars, notInsertVars>>

(***************************************************************************)
(* get_all_terms (cell 7cd6e91a): table.scan page by page.  The table is   *)
(* the sequence of its items' terms (the hash key, so no term twice) in    *)
(* the order a scan meets them.                                            *)
(***************************************************************************)
NoKey == 0
TermKeys == 1..MaxTableItems

TableContents ==
    {c \in SeqsUpTo(TermKeys, MaxTableItems) :
        \A a, b \in 1..Len(c) : a # b => c[a] # c[b]}

NoResponse == [st |-> "none", Items |-> <<>>, LastEvaluatedKey |-> NoKey]

ScanIdle ==
    /\ scan_pc = "idle"
    /\ content = <<>>
    /\ response = NoResponse
    /\ scan_terms = <<>>

\* mutant: the scan starts again at the item of the key handed in
EvaluatedUpTo_Inclusive(c, key) ==
    IF key = NoKey THEN 0
    ELSE (CHOOSE j \in 1..Len(c) : c[j] = key) - 1

\* ExclusiveStartKey: how many items of the table the scan leaves behind
EvaluatedUpTo(c, key) ==
    IF key = NoKey THEN 0
    ELSE CHOOSE j \in 1..Len(c) : c[j] = key

\* the responses table.scan can give from a start key: a page of any size of
\* the items that follow, with LastEvaluatedKey when items remain and, as
\* DynamoDB does when a page stops at its size limit, possibly also when the
\* page ends with the table's last item; or a failure
ScanResponses(c, key) ==
    LET from == EvaluatedUpTo(c, key)
        rest == Len(c) - from
        KeysAfter(upto) ==
            IF upto < Len(c) THEN {c[upto]}
            ELSE IF upto > from THEN {NoKey, c[upto]}
            ELSE {NoKey}
        Pages ==
            { [n |-> n, k |-> k] :
                n \in (IF rest = 0 THEN {0} ELSE 1..rest), k \in TermKeys \cup {NoKey} }
    IN { [st |-> "ok", Items |-> SubSeq(c, from + 1, from + p.n), LastEvaluatedKey |-> p.k] :
           p \in {q \in Pages : q.k \in KeysAfter(from + q.n)} }
       \cup
       { [st |-> "ProvisionedThroughputExceededException", Items |-> <<>>,
          LastEvaluatedKey |-> NoKey] }

\* response = table.scan(ProjectionExpression='term');
\* terms = [item['term'] for item in response['Items']]
FirstScan ==
    /\ scan_pc = "start"
    /\ \E r \in ScanResponses(content, NoKey) :
         /\ response' = r
         /\ scan_pc' = IF r.st = "ok" THEN "loop" ELSE "raised"
         /\ scan_terms' = IF r.st = "ok" THEN r.Items ELSE scan_terms
    /\ UNCHANGED <<content, setupVars, agentVars, glossaryVars, notScanVars>>

\* while 'LastEvaluatedKey' in response: response = table.scan(...,
\* ExclusiveStartKey=response['LastEvaluatedKey']); terms.extend(...)
NextScan ==
    /\ scan_pc = "loop"
    /\ response.LastEvaluatedKey # NoKey
    /\ \E r \in ScanResponses(content, response.LastEvaluatedKey) :
         /\ response' = r
         /\ scan_pc' = IF r.st = "ok" THEN "loop" ELSE "raised"
         /\ scan_terms' = IF r.st = "ok" THEN scan_terms \o r.Items ELSE scan_terms
    /\ UNCHANGED <<content, setupVars, agentVars, glossaryVars, notScanVars>>

\* return terms
GetAllTermsReturn ==
    /\ scan_pc = "loop"
    /\ response.LastEvaluatedKey = NoKey
    /\ scan_pc' = "returned"
    /\ UNCHANGED <<content, response, scan_terms, setupVars, agentVars, glossaryVars, notScanVars>>

(***************************************************************************)
(* The crawler run cell 7120e6d0 of the Glue notebook, the crawler itself  *)
(* and the listing of the tables that follows.  The crawler reports READY  *)
(* before the run asked for begins, RUNNING and STOPPING during it, and    *)
(* READY again after it; when it takes each step is its own affair.        *)
(***************************************************************************)
CrawlIdle ==
    /\ crawl_pc = "idle"
    /\ crawler = "absent"
    /\ state = "None"
    /\ state_previous = "None"
    /\ polls = 0
    /\ listed = "none"

\* response_get["Crawler"]["State"]
CrawlerState(progress) ==
    IF progress = "running" THEN "RUNNING"
    ELSE IF progress = "stopping" THEN "STOPPING"
    ELSE "READY"

GlueFailures == {"AccessDeniedException", "EndpointConnectionError"}

\* mutant: the loop is left as soon as the crawler is no longer RUNNING
LoopBreaks_NotRunning(st) == st # "RUNNING"

\* mutant: the loop gives up waiting once the crawler winds down
LoopBreaks_OrStopping(st) == st \in {"READY", "STOPPING"}

\* if state == "READY": break
LoopBreaks(st) == st = "READY"

\* cell 8d2141ce: glue_client.create_crawler(...); time.sleep(5); print(...)
CreateCrawlerCell ==
    /\ crawl_pc = "create"
    /\ \E resp \in CreateResponses(crawler # "absent", "AlreadyExistsException") :
         IF resp = "ok"
         THEN crawl_pc' = "start" /\ crawler' = "not_started"
         ELSE crawl_pc' = "raised" /\ UNCHANGED crawler
    /\ UNCHANGED <<state, state_previous, polls, listed>>
    /\ UNCHANGED <<setupVars, agentVars, glossaryVars, notCrawlVars>>

\* response = glue_client.start_crawler(Name=crawler_name); print(... started.)
StartCrawler ==
    /\ crawl_pc = "start"
    /\ \E resp \in {"ok"} \cup GlueFailures :
         IF resp = "ok"
         THEN crawl_pc' = "started" /\ crawler' = "requested"
         ELSE crawl_pc' = "raised" /\ UNCHANGED crawler
    /\ UNCHANGED <<state, state_previous, polls, listed>>
    /\ UNCHANGED <<setupVars, agentVars, glossaryVars, notCrawlVars>>

\* time.sleep(5); state_previous = None
SleepAfterStart ==
    /\ crawl_pc = "started"
    /\ crawl_pc' = "poll"
    /\ state_previous' = "None"
    /\ UNCHANGED <<crawler, state, polls, listed>>
    /\ UNCHANGED <<setupVars, agentVars, glossaryVars, notCrawlVars>>

\* one pass of the while True body up to the break or the sleep; after the
\* break the cell prints "... finished." and ends
GetCrawler ==
    /\ crawl_pc = "poll"
    /\ \E resp \in {"ok"} \cup GlueFailures :
         IF resp = "ok"
         THEN /\ state' = CrawlerState(crawler)
              /\ state_previous' = CrawlerState(crawler)
              /\ polls' = IF polls < MaxPolls THEN polls + 1 ELSE polls
              /\ crawl_pc' = IF LoopBreaks(CrawlerState(crawler)) THEN "finished" ELSE "sleeping"
         ELSE /\ crawl_pc' = "raised"
              /\ UNCHANGED <<state, state_previous, polls>>
    /\ UNCHANGED <<crawler, listed>>
    /\ UNCHANGED <<setupVars, agentVars, glossaryVars, notCrawlVars>>

\* time.sleep(10)
SleepBetweenPolls ==
    /\ crawl_pc = "sleeping"
    /\ crawl_pc' = "poll"
    /\ UNCHANGED <<crawler, state, state_previous, polls, listed>>
    /\ UNCHANGED <<setupVars, agentVars, glossaryVars, notCrawlVars>>

\* the crawler: the run asked for begins, winds down, is over
CrawlerStep ==
    /\ \/ crawler = "requested" /\ crawler' = "running"
       \/ crawler = "running" /\ crawler' = "stopping"
       \/ crawler = "stopping" /\ crawler' = "completed"
    /\ UNCHANGED <<crawl_pc, state, state_previous, polls, listed>>
    /\ UNCHANGED <<setupVars, agentVars, glossaryVars, notCrawlVars>>

\* tables = get_alltables(database), run after the crawler cell has ended:
\* the run's tables are all there once the run is over
GetAllTables ==
    /\ crawl_pc = "finished"
    /\ crawl_pc' = "listed"
    /\ listed' = crawler
    /\ UNCHANGED <<crawler, state, state_previous, polls>>
    /\ UNCHANGED <<setupVars, agentVars, glossaryVars, notCrawlVars>>

(***************************************************************************)
(* The clients the notebooks build and the attempts the SDK makes of one   *)
(* call: boto3.client(...) and boto3.resource(...) without a config, and   *)
(* get_bedrock_client with its retry_config.  The notebooks hold no loop   *)
(* or handler that sends a failed call again.                              *)
(***************************************************************************)
ClientBuilders ==
    {"get_bedrock_client", "boto3.client('glue')", "boto3.client('s3')",
     "boto3.client('bedrock-runtime')", "boto3.resource('dynamodb')"}

\* botocore without a retries entry: legacy mode, 5 attempts in all
SdkDefaultAttempts == 5

\* retries={"max_attempts": 10, "mode": "standard"}
BedrockClientAttempts == 10

\* mutant: get_bedrock_client hands no config to session.client
max_attempts_NoConfig(builder) == SdkDefaultAttempts

\* the most attempts of one call a client makes
max_attempts(builder) ==
    IF builder = "get_bedrock_client" THEN BedrockClientAttempts ELSE SdkDefaultAttempts

\* errors the SDK sends the call again for, and errors it raises at once
RetriedErrors == {"ThrottlingException"}
UnretriedErrors == {"AccessDeniedException"}

RetryIdle ==
    /\ call_pc = "idle"
    /\ client = "none"
    /\ failing = 0
    /\ failure = "none"
    /\ attempts = 0

\* one attempt of the call by the SDK: an answer ends it, an unretried error
\* or the last allowed attempt raises, otherwise the SDK tries again
SdkAttempt ==
    /\ call_pc = "calling"
    /\ attempts' = attempts + 1
    /\ failing' = IF failing > 0 THEN failing - 1 ELSE 0
    /\ call_pc' = IF failing = 0 THEN "returned"
                  ELSE IF failure \in UnretriedErrors THEN "raised"
                  ELSE IF attempts + 1 >= max_attempts(client) THEN "raised"
                  ELSE "calling"
    /\ UNCHANGED <<client, failure>>
    /\ UNCHANGED <<setupVars, agentVars, glossaryVars, notRetryVars>>

(***************************************************************************)
(* The application inference profile cells of the Glue notebook, run top   *)
(* to bottom.  Each call is named by the line of its cell, its function    *)
(* and the profile whose ..._arn it is handed; a call that raises ends its *)
(* cell, and the run goes on with the next cell.                           *)
(***************************************************************************)
Sonnet == "claims_dept_claude_3_sonnet_profile"
Llama == "claims_dept_llama3_70b_profile"

ProfileCall(cell, fn, profile) == [cell |-> cell, fn |-> fn, profile |-> profile]

\* mutant: the clean-up cell deletes the llama profile only
ProfileCalls_OneDeleted ==
    << ProfileCall(1157, "create_inference_profile", Sonnet),
       ProfileCall(1195, "get_inference_profile", Sonnet),
       ProfileCall(1371, "converse", Sonnet),
       ProfileCall(1516, "converse_stream", Sonnet),
       ProfileCall(1597, "create_inference_profile", Llama),
       ProfileCall(1597, "invoke_model", Llama),
       ProfileCall(1698, "invoke_model_with_stream", Llama),
       ProfileCall(1724, "tag_resource", Sonnet),
       ProfileCall(1724, "tag_resource", Llama),
       ProfileCall(1758, "list_tags", Sonnet),
       ProfileCall(1758, "list_tags", Llama),
       ProfileCall(1788, "untag_resource", Sonnet),
       ProfileCall(1788, "list_tags", Sonnet),
       ProfileCall(1836, "delete_inference_profile", Llama) >>

\* the calls made with a profile, in notebook order
ProfileCalls ==
    << ProfileCall(1157, "create_inference_profile", Sonnet),
       ProfileCall(1195, "get_inference_profile", Sonnet),
       ProfileCall(1371, "converse", Sonnet),
       ProfileCall(1516, "converse_stream", Sonnet),
       ProfileCall(1597, "create_inference_profile", Llama),
       ProfileCall(1597, "invoke_model", Llama),
       ProfileCall(1698, "invoke_model_with_stream", Llama),
       ProfileCall(1724, "tag_resource", Sonnet),
       ProfileCall(1724, "tag_resource", Llama),
       ProfileCall(1758, "list_tags", Sonnet),
       ProfileCall(1758, "list_tags", Llama),
       ProfileCall(1788, "untag_resource", Sonnet),
       ProfileCall(1788, "list_tags", Sonnet),
       ProfileCall(1836, "delete_inference_profile", Llama),
       ProfileCall(1836, "delete_inference_profile", Sonnet) >>

ProfileIdle ==
    /\ prof_pc = 0
    /\ profiles = {}
    /\ arns = {}
    /\ deleted = {}
    /\ used_deleted = {}
    /\ call_failures = 0

\* the call after call k when k returned
AfterReturn(k) == k + 1

\* the call after call k when k raised: the first call of the next cell
AfterRaise(k) ==
    LET later == {j \in (k + 1)..Len(ProfileCalls) : ProfileCalls[j].cell # ProfileCalls[k].cell}
    IN IF later = {} THEN Len(ProfileCalls) + 1
       ELSE CHOOSE j \in later : \A m \in later : j <= m

\* whether the service may fail the call on its own account
ServiceAnswers == IF call_failures < MaxCallFailures THEN {"ok", "failed"} ELSE {"ok"}

\* xxx_profile = create_inference_profile(...); xxx_profile_arn = xxx_profile[...]
CreateInferenceProfileCall ==
    /\ prof_pc \in 1..Len(ProfileCalls)
    /\ ProfileCalls[prof_pc].fn = "create_inference_profile"
    /\ LET p == ProfileCalls[prof_pc].profile
       IN \E answer \in ServiceAnswers :
            IF answer = "ok" /\ p \notin profiles
            THEN /\ profiles' = profiles \cup {p}
                 /\ arns' = arns \cup {p}
                 /\ deleted' = deleted \ {p}
                 /\ prof_pc' = AfterReturn(prof_pc)
                 /\ UNCHANGED call_failures
            ELSE /\ prof_pc' = AfterRaise(prof_pc)
                 /\ call_failures' = call_failures + 1
                 /\ UNCHANGED <<profiles, arns, deleted>>
    /\ UNCHANGED used_deleted
    /\ UNCHANGED <<setupVars, agentVars, glossaryVars, notProfileVars>>

\* get_inference_profile, converse, converse_stream, invoke_model,
\* invoke_model_with_stream, tag_resource, list_tags, untag_resource with the
\* profile's ARN: NameError when the variable was never assigned, an error of
\* the service when the profile does not exist
UseInferenceProfileCall ==
    /\ prof_pc \in 1..Len(ProfileCalls)
    /\ ProfileCalls[prof_pc].fn \notin {"create_inference_profile", "delete_inference_profile"}
    /\ LET p == ProfileCalls[prof_pc].profile
       IN /\ used_deleted' = IF p \in arns /\ p \in deleted
                             THEN used_deleted \cup {p} ELSE used_deleted
          /\ \E answer \in ServiceAnswers :
               IF answer = "ok" /\ p \in arns /\ p \in profiles
               THEN prof_pc' = AfterReturn(prof_pc) /\ UNCHANGED call_failures
               ELSE prof_pc' = AfterRaise(prof_pc) /\ call_failures' = call_failures + 1
    /\ UNCHANGED <<profiles, arns, deleted>>
    /\ UNCHANGED <<setupVars, agentVars, glossaryVars, notProfileVars>>

\* delete_inference_profile(xxx_profile_arn)
DeleteInferenceProfileCall ==
    /\ prof_pc \in 1..Len(ProfileCalls)
    /\ ProfileCalls[prof_pc].fn = "delete_inference_profile"
    /\ LET p == ProfileCalls[prof_pc].profile
       IN \E answer \in ServiceAnswers :
            IF answer = "ok" /\ p \in arns /\ p \in profiles
            THEN /\ profiles' = profiles \ {p}
                 /\ deleted' = deleted \cup {p}
                 /\ prof_pc' = AfterReturn(prof_pc)
                 /\ UNCHANGED call_failures
            ELSE /\ prof_pc' = AfterRaise(prof_pc)
                 /\ call_failures' = call_failures + 1
                 /\ UNCHANGED <<profiles, deleted>>
    /\ UNCHANGED <<arns, used_deleted>>
    /\ UNCHANGED <<setupVars, agentVars, glossaryVars, notProfileVars>>

(***************************************************************************)
(* The response parsing functions of the Glue notebook.  A response is     *)
(* its API, whether it holds the key read ('stream' or 'body'), the events *)
(* of its stream and the bytes of its body.  An event is its 'eventType',  *)
(* what of its 'eventData' the parser looks at, and the bytes of its       *)
(* 'chunk'; a part that is not there is "absent".                          *)
(***************************************************************************)
Event(eventType, toolUse, trace, chunk) ==
    [eventType |-> eventType, toolUse |-> toolUse, trace |-> trace, chunk |-> chunk]

KnownEventTypes ==
    {"messageStart", "contentBlockStart", "contentBlockDelta", "contentBlockStop",
     "messageStop", "metadata"}

ExceptionEventTypes ==
    {"internalServerException", "modelStreamErrorException", "validationException",
     "throttlingException", "serviceUnavailableException"}

\* events of a ConverseStream response
ConverseEvents ==
    { Event(t, FALSE, "absent", "absent") :
        t \in {"messageStart", "contentBlockStop", "messageStop", "metadata",
               "internalServerException", "modelStreamErrorException",
               "ping", "absent"} }
    \cup { Event(t, u, "absent", "absent") :
             t \in {"contentBlockStart", "contentBlockDelta"}, u \in BOOLEAN }
    \cup { Event("metadata", FALSE, g, "absent") : g \in {"no guardrail", "inputAssessment"} }

\* bytes of a chunk or of a body, and json.loads(bytes.decode('utf-8'))
JsonBytes == {"b'{\"generation\": \"Amazon\"}'", "b'{\"generation\": \" Bedrock\"}'"}

JSONDecodeError == "JSONDecodeError"

json_loads(bytes) ==
    IF bytes = "b'{\"generation\": \"Amazon\"}'" THEN "{'generation': 'Amazon'}"
    ELSE IF bytes = "b'{\"generation\": \" Bedrock\"}'" THEN "{'generation': ' Bedrock'}"
    ELSE JSONDecodeError

\* events of an InvokeModelWithResponseStream response: with a chunk, or not
InvokeStreamEvents ==
    { Event("absent", FALSE, "absent", b) : b \in JsonBytes }
    \cup { Event("absent", FALSE, "absent", "absent") }

Response(api, present, events, body) ==
    [api |-> api, present |-> present, events |-> events, body |-> body]

NoApiResponse == Response("none", FALSE, <<>>, "absent")

Responses ==
    { Response("converse_stream", TRUE, es, "absent") : es \in SeqsUpTo(ConverseEvents, MaxStreamLen) }
    \cup { Response("invoke_model_with_response_stream", TRUE, es, "absent") :
             es \in SeqsUpTo(InvokeStreamEvents, MaxStreamLen) }
    \cup { Response("invoke_model", TRUE, <<>>, b) : b \in JsonBytes }
    \cup { Response(api, FALSE, <<>>, "absent") :
             api \in {"converse_stream", "invoke_model_with_response_stream", "invoke_model"} }

\* what a parsing function returns: None, a list, or a decoded value
ReturnsNone == [none |-> TRUE, list |-> <<>>, value |-> "absent"]
ReturnsList(l) == [none |-> FALSE, list |-> l, value |-> "absent"]
ReturnsValue(v) == [none |-> FALSE, list |-> <<>>, value |-> v]
NotReturned == [none |-> FALSE, list |-> <<>>, value |-> "not returned"]
Raises(exc) == [none |-> FALSE, list |-> <<>>, value |-> exc]

\* a parsed event: its 'type' ("absent" when the key is not set) and its keys
Parsed(type, keys) == [type |-> type, keys |-> keys, value |-> "absent"]
\* an element of the list of parse_invoke_model_with_stream
Decoded(v) == [type |-> "absent", keys |-> {}, value |-> v]

\* the body of the for loop of parse_converse_stream_response for one event
ParseConverseEvent(event) ==
    LET event_type == event.eventType
        first ==
            IF event_type = "messageStart" THEN Parsed("messageStart", {"type", "role"})
            ELSE IF event_type = "contentBlockStart"
                 THEN Parsed("contentBlockStart",
                             {"type", "contentBlockIndex"}
                             \cup (IF event.toolUse THEN {"toolUseId", "toolName"} ELSE {}))
            ELSE IF event_type = "contentBlockDelta"
                 THEN Parsed("contentBlockDelta",
                             {"type", "contentBlockIndex", "text"}
                             \cup (IF event.toolUse THEN {"toolInput"} ELSE {}))
            ELSE IF event_type = "contentBlockStop"
                 THEN Parsed("contentBlockStop", {"type", "contentBlockIndex"})
            ELSE IF event_type = "messageStop"
                 THEN Parsed("messageStop", {"type", "stopReason", "additionalModelResponseFields"})
            ELSE IF event_type = "metadata"
                 THEN Parsed("metadata", {"type", "usage", "metrics", "trace"})
            ELSE Parsed("absent", {})
    IN IF event_type = "metadata" /\ event.trace # "absent"
       THEN Parsed(first.type,
                   first.keys \cup (IF event.trace = "inputAssessment"
                                    THEN {"inputAssessment"} ELSE {}))
       ELSE IF event_type \in ExceptionEventTypes
            THEN Parsed("exception",
                        first.keys \cup {"type", "exceptionType", "message"}
                        \cup (IF event_type = "modelStreamErrorException"
                              THEN {"originalStatusCode", "originalMessage"} ELSE {}))
            ELSE first

\* mutant: an event that sets no key is left out of the list
RECURSIVE ParseConverseEvents_SkipEmpty(_)
ParseConverseEvents_SkipEmpty(stream) ==
    IF stream = <<>> THEN <<>>
    ELSE (IF ParseConverseEvent(Head(stream)).keys = {} THEN <<>>
          ELSE <<ParseConverseEvent(Head(stream))>>)
         \o ParseConverseEvents_SkipEmpty(Tail(stream))

\* for event in stream: ...; parsed_events.append(parsed_event)
RECURSIVE ParseConverseEvents(_)
ParseConverseEvents(stream) ==
    IF stream = <<>> THEN <<>>
    ELSE <<ParseConverseEvent(Head(stream))>> \o ParseConverseEvents(Tail(stream))

parse_converse_stream_response(resp) ==
    IF ~resp.present THEN ReturnsList(<<>>)
    ELSE ReturnsList(ParseConverseEvents(resp.events))

\* parse_invoke_model_response (cell at line 1536)
parse_invoke_model_response(resp) ==
    IF resp.present
    THEN IF json_loads(resp.body) = JSONDecodeError THEN Raises(JSONDecodeError)
         ELSE ReturnsValue(json_loads(resp.body))
    ELSE ReturnsNone

\* mutant: every decoded chunk is put in front of the list
RECURSIVE ParseInvokeStreamEvents_Prepend(_, _)
ParseInvokeStreamEvents_Prepend(body_stream, out) ==
    IF body_stream = <<>> THEN ReturnsList(out)
    ELSE LET event == Head(body_stream)
         IN IF event.chunk # "absent"
            THEN IF json_loads(event.chunk) = JSONDecodeError THEN Raises(JSONDecodeError)
                 ELSE ParseInvokeStreamEvents_Prepend(Tail(body_stream),
                          <<Decoded(json_loads(event.chunk))>> \o out)
            ELSE ParseInvokeStreamEvents_Prepend(Tail(body_stream), out)

\* for event in body_stream: if 'chunk' in event: output.append(json.loads(...))
RECURSIVE ParseInvokeStreamEvents(_, _)
ParseInvokeStreamEvents(body_stream, out) ==
    IF body_stream = <<>> THEN ReturnsList(out)
    ELSE LET event == Head(body_stream)
         IN IF event.chunk # "absent"
            THEN IF json_loads(event.chunk) = JSONDecodeError THEN Raises(JSONDecodeError)
                 ELSE ParseInvokeStreamEvents(Tail(body_stream),
                          Append(out, Decoded(json_loads(event.chunk))))
            ELSE ParseInvokeStreamEvents(Tail(body_stream), out)

parse_invoke_model_with_stream(resp) ==
    IF resp.present THEN ParseInvokeStreamEvents(resp.events, <<>>)
    ELSE ReturnsNone

\* where a parsing function that gave this result has got to
AfterParse(result) == IF result.value = JSONDecodeError THEN "raised" ELSE "parsed"

ParseIdle ==
    /\ parse_pc = "idle"
    /\ api_response = NoApiResponse
    /\ parsed_output = NotReturned

\* parsed_response = parse_converse_stream_response(response)
ParseConverseStreamResponse ==
    /\ parse_pc = "parse"
    /\ api_response.api = "converse_stream"
    /\ parsed_output' = parse_converse_stream_response(api_response)
    /\ parse_pc' = "parsed"
    /\ UNCHANGED api_response
    /\ UNCHANGED <<setupVars, agentVars, glossaryVars, notParseVars>>

\* parsed_output = parse_invoke_model_response(response)
ParseInvokeModelResponse ==
    /\ parse_pc = "parse"
    /\ api_response.api = "invoke_model"
    /\ parsed_output' = parse_invoke_model_response(api_response)
    /\ parse_pc' = AfterParse(parse_invoke_model_response(api_response))
    /\ UNCHANGED api_response
    /\ UNCHANGED <<setupVars, agentVars, glossaryVars, notParseVars>>

\* parsed_output = parse_invoke_model_with_stream(response)
ParseInvokeModelWithStream ==
    /\ parse_pc = "parse"
    /\ api_response.api = "invoke_model_with_response_stream"
    /\ parsed_output' = parse_invoke_model_with_stream(api_response)
    /\ parse_pc' = AfterParse(parse_invoke_model_with_stream(api_response))
    /\ UNCHANGED api_response
    /\ UNCHANGED <<setupVars, agentVars, glossaryVars, notParseVars>>

NotInsertIdle == ScanIdle /\ CrawlIdle /\ RetryIdle /\ ProfileIdle /\ ParseIdle
NotScanIdle == InsertIdle /\ CrawlIdle /\ RetryIdle /\ ProfileIdle /\ ParseIdle
NotCrawlIdle == InsertIdle /\ ScanIdle /\ RetryIdle /\ ProfileIdle /\ ParseIdle
NotRetryIdle == InsertIdle /\ ScanIdle /\ CrawlIdle /\ ProfileIdle /\ ParseIdle
NotProfileIdle == InsertIdle /\ ScanIdle /\ CrawlIdle /\ RetryIdle /\ ParseIdle
NotParseIdle == InsertIdle /\ ScanIdle /\ CrawlIdle /\ RetryIdle /\ ProfileIdle
DataIdle == InsertIdle /\ ScanIdle /\ CrawlIdle /\ RetryIdle /\ ProfileIdle /\ ParseIdle

(***************************************************************************)
(* Specifications: one per notebook part.                                  *)
(***************************************************************************)
\* the single-step cell on every completion up to MaxOutLen tokens
StepInit == AgentInit("cell") /\ SetupIdle /\ GlossaryIdle /\ DataIdle
StepNext == StepCell
SpecStep == StepInit /\ [][StepNext]_vars

\* the loop cell
LoopInit == AgentInit("loop") /\ SetupIdle /\ GlossaryIdle /\ DataIdle
LoopNext == LoopIteration
SpecLoop == LoopInit /\ [][LoopNext]_vars

\* the setup cells and helper functions, run in any order
SetupInit == AgentInit("idle") /\ SetupIdle /\ GlossaryIdle /\ DataIdle
SetupNext ==
    \/ TableCreationCell
    \/ PlaceIndexCell
    \/ BucketCell
    \/ DatabaseCell
    \/ GetLatLongCall
    \/ GetWeatherCall
    \/ DeleteTableCall
    \/ TableBecomesActive
    \/ TableDeletionCompletes
SpecSetup == SetupInit /\ [][SetupNext]_vars

\* lines a glossary text is made of: blank ones, 'term: definition' ones
\* (padded, with a mixed-case term, with ': ' inside the definition, with a
\* space before the colon, with no term) and ones without a usable ': '
GlossaryLines ==
    { <<>>,
      <<" ">>,
      <<"A", ":", " ", "b">>,
      <<" ", "A", "b", ":", " ", "B", " ">>,
      <<"b", ":", " ", "A", ":", " ", "b">>,
      <<"B", " ", ":", " ", "a">>,
      <<":", " ", "b">>,
      <<"A">>,
      <<"A", ":", "b">>,
      <<"A", ":", " ">> }

\* '\n'.join(lines)
RECURSIVE JoinLines(_)
JoinLines(lines) ==
    IF lines = <<>> THEN <<>>
    ELSE IF Len(lines) = 1 THEN Head(lines)
    ELSE Head(lines) \o <<NL>> \o JoinLines(Tail(lines))

\* the glossary parser on every text of up to MaxLines of these lines
GlossaryInit ==
    /\ AgentInit("glossary")
    /\ SetupIdle
    /\ glossary \in {JoinLines(ls) : ls \in SeqsUpTo(GlossaryLines, MaxLines)}
    /\ elements = NotParsed
    /\ DataIdle
GlossaryNext == GlossaryCell
SpecGlossary == GlossaryInit /\ [][GlossaryNext]_vars

\* the table creation cell followed by the insert cell, for every creation
\* time up to MaxCreationTime and every number of elements up to MaxItems
InsertInit ==
    /\ AgentInit("idle")
    /\ SetupIdle
    /\ GlossaryIdle
    /\ ins_pc = "idle"
    /\ slept = 0
    /\ elapsed = 0
    /\ creation_time \in 1..MaxCreationTime
    /\ to_write \in 1..MaxItems
    /\ puts = <<>>
    /\ NotInsertIdle
InsertNext ==
    \/ TableCreationCell
    \/ BetweenCellsSecond
    \/ InsertCellBegin
    \/ InsertSleepSecond
    \/ WriteItemsBegin
    \/ BatchPutItem
    \/ WriteItemsReturn
SpecInsert == InsertInit /\ [][InsertNext]_vars

\* get_all_terms on every table of up to MaxTableItems items, the table not
\* being modified meanwhile; the function runs on once called
ScanInit ==
    /\ AgentInit("idle")
    /\ SetupIdle
    /\ GlossaryIdle
    /\ scan_pc = "start"
    /\ content \in TableContents
    /\ response = NoResponse
    /\ scan_terms = <<>>
    /\ NotScanIdle
ScanNext ==
    \/ FirstScan
    \/ NextScan
    \/ GetAllTermsReturn
SpecScan == ScanInit /\ [][ScanNext]_vars /\ WF_vars(ScanNext)

\* the crawler creation cell, the crawler run cell and the listing,
\* interleaved with the crawler
CrawlInit ==
    /\ AgentInit("idle")
    /\ SetupIdle
    /\ GlossaryIdle
    /\ crawl_pc = "create"
    /\ crawler \in {"absent", "not_started"}
    /\ state = "None"
    /\ state_previous = "None"
    /\ polls = 0
    /\ listed = "none"
    /\ NotCrawlIdle
CrawlNext ==
    \/ CreateCrawlerCell
    \/ StartCrawler
    \/ SleepAfterStart
    \/ GetCrawler
    \/ SleepBetweenPolls
    \/ CrawlerStep
    \/ GetAllTables
SpecCrawl == CrawlInit /\ [][CrawlNext]_vars

\* the statements of the two crawler cells: the kernel runs a cell to its
\* end, every call and every sleep in it returning or raising; the crawler
\* is under no such obligation, nor is the reader who runs the listing
CrawlCellStep ==
    \/ CreateCrawlerCell
    \/ StartCrawler
    \/ SleepAfterStart
    \/ GetCrawler
    \/ SleepBetweenPolls
SpecCrawlFair == CrawlInit /\ [][CrawlNext]_vars /\ WF_vars(CrawlCellStep)

\* one call through each client, the service failing up to MaxFailing
\* attempts in a row
RetryInit ==
    /\ AgentInit("idle")
    /\ SetupIdle
    /\ GlossaryIdle
    /\ call_pc = "calling"
    /\ client \in ClientBuilders
    /\ failing \in 0..MaxFailing
    /\ failure \in RetriedErrors \cup UnretriedErrors
    /\ attempts = 0
    /\ NotRetryIdle
RetryNext == SdkAttempt
SpecRetry == RetryInit /\ [][RetryNext]_vars

\* the inference profile cells, top to bottom, with up to MaxCallFailures
\* failing calls, on an account where an earlier run may have left profiles
ProfileInit ==
    /\ AgentInit("idle")
    /\ SetupIdle
    /\ GlossaryIdle
    /\ prof_pc = 1
    /\ profiles \in SUBSET {Sonnet, Llama}
    /\ arns = {}
    /\ deleted = {}
    /\ used_deleted = {}
    /\ call_failures = 0
    /\ NotProfileIdle
ProfileNext ==
    \/ CreateInferenceProfileCall
    \/ UseInferenceProfileCall
    \/ DeleteInferenceProfileCall
SpecProfile == ProfileInit /\ [][ProfileNext]_vars

\* each parsing function on the responses of its API, with up to
\* MaxStreamLen events
ParseInit ==
    /\ AgentInit("idle")
    /\ SetupIdle
    /\ GlossaryIdle
    /\ parse_pc = "parse"
    /\ api_response \in Responses
    /\ parsed_output = NotReturned
    /\ NotParseIdle
ParseNext ==
    \/ ParseConverseStreamResponse
    \/ ParseInvokeModelResponse
    \/ ParseInvokeModelWithStream
SpecParse == ParseInit /\ [][ParseNext]_vars

(***************************************************************************)
(* Properties of the agent cells.                                          *)
(***************************************************************************)
CountEv(l, kind) == Cardinality({j \in 1..Len(l) : l[j].ev = kind})
CallsOf(l) == SelectSeq(l, LAMBDA e : e.ev = "call")
IsPrefix(a, b) == Len(a) <= Len(b) /\ SubSeq(b, 1, Len(a)) = a
IsStrictPrefix(a, b) == Len(a) < Len(b) /\ SubSeq(b, 1, Len(a)) = a
Stepped == last # NoStep

\* C1 (as stated): the loop makes at most 5 model invocations and at most 5
\* tool calls, never runs a sixth iteration, and is stopped once done is True.
C1_LoopCapped ==
    /\ CountEv(log, "model") <= LoopRange
    /\ CountEv(log, "call") <= LoopRange
    /\ i <= LoopRange
    /\ (done => pc = "done")

\* the text between the first '<answer>' and the first following '</answer>',
\* or the end of the output when no '</answer>' follows
AnswerUpToClosingTag(out) ==
    LET a == FirstIndex(out, T_ANSWER, 1)
        c == FirstIndex(out, T_ANSWER_END, a + 1)
    IN SubSeq(out, a + 1, IF c = 0 THEN Len(out) ELSE c - 1)

\* the text between the first '<answer>' and the next '<answer>' or '</answer>',
\* whichever comes first, or the end of the output
AnswerUpToNextTag(out) ==
    LET a == FirstIndex(out, T_ANSWER, 1)
        ends == {j \in (a + 1)..Len(out) : out[j] \in {T_ANSWER, T_ANSWER_END}}
        e == IF ends = {} THEN Len(out) + 1
             ELSE CHOOSE j \in ends : \A m \in ends : j <= m
    IN SubSeq(out, a + 1, e - 1)

AnswerStep(answer) ==
    (Stepped /\ Contains(last.out, T_ANSWER)) =>
        /\ last.res.st = "ok"
        /\ last.res.val.done
        /\ last.res.val.ret = answer
        /\ last.res.ev = <<>>
        /\ ~IsPrefix(last.prompt, last.res.val.ret)

\* C2 (as stated): an output with '<answer>' returns (True, answer), answer
\* being the text up to the first following '</answer>' or the end of the
\* output; no tool is called and the prompt is not extended.
C2_AnswerToClosingTag == AnswerStep(AnswerUpToClosingTag(last.out))

\* C2 (amended): an output with '<answer>' returns (True, answer), answer being
\* the text between the first '<answer>' and the next '<answer>' or '</answer>'
\* (or the end of the output); no tool is called and the prompt is not extended.
C2_AnswerToNextTag == AnswerStep(AnswerUpToNextTag(last.out))

\* an answer was returned for an output that holds a second '<answer>' before
\* any '</answer>', and another one for a closed, non-empty answer
C2_Witness ==
    /\ Stepped
    /\ Contains(last.out, T_ANSWER)
    /\ last.res.st = "ok"
    /\ AnswerUpToNextTag(last.out) # AnswerUpToClosingTag(last.out)
    /\ last.res.val.ret = <<T_TEXT>>

\* the output holds '<function_calls>', one invoke element naming a function
\* of the notebook with exactly its parameters, '</function_calls>'
WellFormedBlock(out) ==
    LET f == FirstIndex(out, T_FUNCTION_CALLS, 1)
    IN /\ f # 0
       /\ f + 2 <= Len(out)
       /\ out[f + 1].k = "xml"
       /\ out[f + 1].n = "invoke"
       /\ Keys(out[f + 1].p) = {"tool_name", "parameters"}
       /\ StrName(Get(out[f + 1].p, "tool_name")) \in GlobalFunctions
       /\ Get(out[f + 1].p, "parameters").isdict
       /\ Keys(Get(out[f + 1].p, "parameters").kw)
            = Signature(StrName(Get(out[f + 1].p, "tool_name")))
       /\ out[f + 2] = T_FUNCTION_CALLS_END

BlockTool(out) ==
    StrName(Get(out[FirstIndex(out, T_FUNCTION_CALLS, 1) + 1].p, "tool_name"))
BlockParameters(out) ==
    Get(out[FirstIndex(out, T_FUNCTION_CALLS, 1) + 1].p, "parameters").kw

\* ret is prompt + output + a Human turn wrapping the result in <function_results>
ExtendsPrompt(prompt, out, ret, result) ==
    LET n == Len(prompt) + Len(out)
    IN /\ Len(ret) = n + 5
       /\ SubSeq(ret, 1, Len(prompt)) = prompt
       /\ SubSeq(ret, Len(prompt) + 1, n) = out
       /\ ret[n + 1].k = "text"
       /\ ret[n + 2] = Tok("tag", "<function_results>")
       /\ ret[n + 3] = Tok("result", result)
       /\ ret[n + 4] = Tok("tag", "</function_results>")
       /\ ret[n + 5].k = "text"
       /\ result # ""
       /\ IsStrictPrefix(prompt, ret)

ToolStepReturns ==
    /\ last.res.st = "ok"
    /\ ~last.res.val.done
    /\ ExtendsPrompt(last.prompt, last.out, last.res.val.ret, last.res.val.func_response)
    /\ next_step = last.res.val.ret
    /\ pc # "aborted"

\* C3 (as stated): an output without '<answer>' and with a well-formed block
\* calls exactly one tool, the one the block names with the block's parameters,
\* and returns (False, prompt + output + Human turn); the old prompt is a strict
\* prefix of the new one.
C3_ToolStepAlwaysReturns ==
    (Stepped /\ ~Contains(last.out, T_ANSWER) /\ WellFormedBlock(last.out)) =>
        /\ CallsOf(last.res.ev) = <<CallEv(BlockTool(last.out), BlockParameters(last.out))>>
        /\ ToolStepReturns

\* C3 (amended): such an output makes the step call the function the block
\* names, with the block's parameters, first, and no other function unless the
\* named one is call_function or single_retriever_step (which dispatch again).
\* When that call returns, the step returns (False, prompt + output + Human
\* turn) and the old prompt is a strict prefix of the new one; when it raises,
\* the step raises too, nothing is returned and the prompt variable is kept.
C3_ToolStepReturnsOrRaises ==
    (Stepped /\ ~Contains(last.out, T_ANSWER) /\ WellFormedBlock(last.out)) =>
        /\ last.res.ev # <<>>
        /\ Head(CallsOf(last.res.ev))
             = CallEv(BlockTool(last.out), BlockParameters(last.out))
        /\ (BlockTool(last.out) \notin {"call_function", "single_retriever_step"}
              => Len(CallsOf(last.res.ev)) = 1)
        /\ IF last.res.st = "ok"
           THEN ToolStepReturns
           ELSE pc = "aborted" /\ next_step = last.prompt

\* the step called get_weather as the block asked and returned the new prompt
C3_Witness ==
    /\ Stepped
    /\ last.out = <<T_FUNCTION_CALLS, CallWeather, T_FUNCTION_CALLS_END>>
    /\ ToolStepReturns
    /\ last.res.val.func_response = "{'current_weather': ...}"

\* C4 (as stated): call_function invokes only get_lat_long or get_weather.
C4_OnlyTheTwoTools ==
    \A j \in 1..Len(log) :
        log[j].ev = "call" => log[j].fn \in {"get_lat_long", "get_weather"}

\* C5 (as stated): model invocations and tool calls alternate strictly, the
\* model first, one tool call per model output; and the prompt handed to the
\* next model invocation is the previous prompt followed by the output and by
\* the result of the tool call that output asked for.
C5_StrictAlternation ==
    /\ \A j \in 1..Len(log) : log[j].ev = (IF j % 2 = 1 THEN "model" ELSE "call")
    /\ (pc = "loop" /\ Stepped) =>
          ExtendsPrompt(last.prompt, last.out, next_step, last.res.val.func_response)

\* the output names a tool that globals() does not hold
NamesUndefinedTool(out) ==
    LET x == Strip(SplitHead(SplitSecond(out, T_FUNCTION_CALLS), T_FUNCTION_CALLS_END))
    IN /\ Len(x) = 1
       /\ x[1].k = "xml"
       /\ x[1].n = "invoke"
       /\ Keys(x[1].p) = {"tool_name", "parameters"}
       /\ StrName(Get(x[1].p, "tool_name")) \notin GlobalNames

NoRecoveryCase(out) ==
    /\ ~Contains(out, T_ANSWER)
    /\ \/ ~Contains(out, T_FUNCTION_CALLS)
       \/ NamesUndefinedTool(out)

\* C6: when the output holds neither '<answer>' nor '<function_calls>', or its
\* block names an undefined tool, single_retriever_step raises and returns
\* nothing, done and the prompt variable keep their values, and the loop is
\* left at that iteration: no step is ever taken after the abort.
C6_NoRecovery ==
    [][ /\ pc # "aborted"
        /\ (last' # last /\ NoRecoveryCase(last'.out)) =>
              /\ last'.res.st = "raise"
              /\ last'.res.exc \in {"IndexError", "KeyError"}
              /\ last'.res.ev = <<>>
              /\ next_step' = next_step
              /\ done' = done
              /\ i' = i
              /\ pc' = "aborted" ]_vars

\* the loop was aborted in a later iteration by an output with no block, and
\* the prompt is still the one that iteration started with
C6_Witness ==
    /\ pc = "aborted"
    /\ i > 0
    /\ last.res.exc = "IndexError"
    /\ next_step = last.prompt

(***************************************************************************)
(* Properties of the setup cells.                                          *)
(***************************************************************************)
\* the handlers that catch one specific error code
SpecificCodeHandled(cell, code) ==
    \/ cell = "table_creation" /\ code = "ResourceInUseException"
    \/ cell = "place_index_creation" /\ code = "ConflictException"
    \/ cell = "delete_dynamodb_table" /\ code = "ResourceNotFoundException"

\* C7 (as stated): apart from the handlers that catch one specific error code,
\* a failed external call always ends the cell or function with an exception.
C7_EveryFailurePropagates ==
    (ran.failed # "none" /\ ~SpecificCodeHandled(ran.cell, ran.failed)) =>
        ran.outcome = "raised"

\* C7 (amended): apart from the handlers that catch one specific error code,
\* and apart from the S3 bucket cell (except Exception: print) and get_lat_long
\* (bare except: the point (0, 0) is returned), which complete normally after
\* any failure, a failed external call ends the cell or function with an
\* exception.
C7_FailurePropagatesUnlessCaughtBroadly ==
    /\ (/\ ran.failed # "none"
        /\ ~SpecificCodeHandled(ran.cell, ran.failed)
        /\ ran.cell \notin {"bucket_creation", "get_lat_long"})
         => ran.outcome = "raised"
    /\ (ran.failed # "none" /\ ran.cell \in {"bucket_creation", "get_lat_long"})
         => ran.outcome = "completed"

\* table creation failed with a code other than "already exists" and the cell
\* ended with that exception
C7_Witness ==
    /\ ran.cell = "table_creation"
    /\ ran.failed = "AccessDeniedException"
    /\ ran.outcome = "raised"
    /\ ran.exc = "AccessDeniedException"

SetupResources == <<table, place_index, bucket, database>>

\* C8: a create step that meets the existing resource (ResourceInUseException
\* for the table, ConflictException for the place index) completes without
\* raising and leaves every resource as it was; a creation that fails with any
\* other code ends with that exception.
C8_CreateIdempotent ==
    [][ runs' = runs + 1 =>
          /\ (/\ ran'.cell = "table_creation"
              /\ table # "absent"
              /\ ran'.failed = "ResourceInUseException")
               => (ran'.outcome = "completed" /\ SetupResources' = SetupResources)
          /\ (/\ ran'.cell = "place_index_creation"
              /\ place_index
              /\ ran'.failed = "ConflictException")
               => (ran'.outcome = "completed" /\ SetupResources' = SetupResources)
          /\ (/\ ran'.cell \in {"table_creation", "place_index_creation"}
              /\ ran'.failed # "none"
              /\ ~SpecificCodeHandled(ran'.cell, ran'.failed))
               => /\ ran'.outcome = "raised"
                  /\ ran'.exc = ran'.failed
                  /\ SetupResources' = SetupResources ]_vars

\* the table creation cell ran a second time, met the table it had created,
\* and completed
C8_Witness ==
    /\ runs >= 2
    /\ ran.cell = "table_creation"
    /\ ran.failed = "ResourceInUseException"
    /\ ran.outcome = "completed"
    /\ table = "CREATING"

\* C9 (as stated): delete_dynamodb_table for a missing table does not raise,
\* reports that the table does not exist and returns None; any other error
\* code of the delete is reported and None is returned too.
C9_DeleteFailureReturnsNone ==
    (ran.cell = "delete_dynamodb_table" /\ ran.failed \in ClientErrorCodes) =>
        /\ ran.outcome = "completed"
        /\ ran.ret = "None"
        /\ (ran.failed = "ResourceNotFoundException"
              => ran.printed = "Table glossary-2 does not exist.")

(***************************************************************************)
(* Properties of the glossary parser.  The lines of a glossary are read    *)
(* here by position, without the parser's own splitting: line k lies       *)
(* between the (k-1)-th and the k-th newline, and a line is taken without  *)
(* its surrounding whitespace, as the parser takes it.                     *)
(***************************************************************************)
NewlineCount(g, j) == Cardinality({m \in 1..j : g[m] = NL})

NumLines(g) == NewlineCount(g, Len(g)) + 1

NewlineAt(g, k) == CHOOSE j \in 1..Len(g) : g[j] = NL /\ NewlineCount(g, j) = k

RawLine(g, k) ==
    SubSeq(g, IF k = 1 THEN 1 ELSE NewlineAt(g, k - 1) + 1,
              IF k = NumLines(g) THEN Len(g) ELSE NewlineAt(g, k) - 1)

Trimmed(l) ==
    LET ink == {j \in 1..Len(l) : l[j] \notin Whitespace}
    IN IF ink = {} THEN <<>>
       ELSE SubSeq(l, CHOOSE a \in ink : \A b \in ink : a <= b,
                      CHOOSE a \in ink : \A b \in ink : a >= b)

GlossaryLine(g, k) == Trimmed(RawLine(g, k))

SeparatorsOf(t) == {j \in 1..(Len(t) - 1) : t[j] = ":" /\ t[j + 1] = " "}

\* the line has the form 'term: definition'
HasTermForm(t) == SeparatorsOf(t) # {}

\* the text before the first ': ' of the line
TermText(t) ==
    SubSeq(t, 1, (CHOOSE j \in SeparatorsOf(t) : \A m \in SeparatorsOf(t) : j <= m) - 1)

WellFormedGlossary(g) ==
    \A k \in 1..NumLines(g) : GlossaryLine(g, k) = <<>> \/ HasTermForm(GlossaryLine(g, k))

\* the non-blank lines with a non-empty term
EntryLines(g) ==
    {k \in 1..NumLines(g) :
        /\ GlossaryLine(g, k) # <<>>
        /\ HasTermForm(GlossaryLine(g, k))
        /\ TermText(GlossaryLine(g, k)) # <<>>}

NthEntryLine(g, n) ==
    CHOOSE k \in EntryLines(g) : Cardinality({m \in EntryLines(g) : m <= k}) = n

LowerCasedFrom(x, y) ==
    Len(x) = Len(y) /\ \A j \in 1..Len(y) : x[j] = LowerChar(y[j])

\* C10: for a glossary whose non-blank lines all have the form
\* 'term: definition', convert_glossary_to_dict returns exactly one entry per
\* non-blank line with a non-empty term, in the order of the lines (so blank
\* lines give no entry), and the 'term' of each entry is the lower-cased text
\* before the first ': ' of its line.
C10_OneEntryPerTermLine ==
    (pc = "parsed" /\ WellFormedGlossary(glossary)) =>
        /\ elements.st = "ok"
        /\ Len(elements.terms) = Cardinality(EntryLines(glossary))
        /\ \A n \in 1..Len(elements.terms) :
               LowerCasedFrom(elements.terms[n].term,
                              TermText(GlossaryLine(glossary, NthEntryLine(glossary, n))))

\* two lines of the form, with different terms written in upper case, and a
\* blank line between them have been parsed
C10_Witness ==
    /\ pc = "parsed"
    /\ WellFormedGlossary(glossary)
    /\ NumLines(glossary) = 3
    /\ GlossaryLine(glossary, 2) = <<>>
    /\ Len(elements.terms) = 2
    /\ elements.terms[1].term # elements.terms[2].term
    /\ \E j \in 1..Len(TermText(GlossaryLine(glossary, 1))) :
           TermText(GlossaryLine(glossary, 1))[j] \in {"A", "B"}

\* the text after the first ': ' of the line
DefinitionText(t) ==
    SubSeq(t, (CHOOSE j \in SeparatorsOf(t) : \A m \in SeparatorsOf(t) : j <= m) + 2, Len(t))

\* C11: for every line 'T: D' of a glossary whose non-blank lines all have
\* that form, the entry's 'term_definition' is the whole definition D: all
\* the text after the first ': ' of the stripped line, also when D itself
\* contains ': '.
C11_WholeDefinition ==
    (pc = "parsed" /\ WellFormedGlossary(glossary)) =>
        \A n \in 1..Len(elements.terms) :
            elements.terms[n].term_definition =
                DefinitionText(GlossaryLine(glossary, NthEntryLine(glossary, n)))

(***************************************************************************)
(* Properties of the insert cell.                                          *)
(***************************************************************************)
\* C12: in every execution of the creation cell followed by the insert cell,
\* no put_item is issued while the table 'glossary-2' is still being created
\* (status not ACTIVE), whatever time the creation takes.
C12_NoPutBeforeActive ==
    \A j \in 1..Len(puts) : puts[j] = "ACTIVE"

(***************************************************************************)
(* Properties of get_all_terms.                                            *)
(***************************************************************************)
Occurrences(l, t) == Cardinality({j \in 1..Len(l) : l[j] = t})

\* C13: for every table content and every way the scan splits it into pages,
\* get_all_terms follows LastEvaluatedKey until a response has none and
\* terminates (returning, or raising when a scan fails), and the list it
\* returns holds the term of every item exactly once.
C13_AllTermsOnce ==
    /\ [](scan_pc = "returned" =>
            /\ response.LastEvaluatedKey = NoKey
            /\ \A t \in TermKeys : Occurrences(scan_terms, t) = Occurrences(content, t))
    /\ <>(scan_pc \in {"returned", "raised"})

\* a table of three items has been read in more than one page, the last page
\* being an empty one after a key that was the table's last
C13_Witness ==
    /\ scan_pc = "returned"
    /\ Len(content) = 3
    /\ Len(scan_terms) = 3
    /\ response.Items = <<>>
    /\ content[1] > content[2]

(***************************************************************************)
(* Properties of the crawler wait loop.                                    *)
(***************************************************************************)
\* C14: the wait loop is left, and the 'finished' message printed, only in a
\* pass in which get_crawler answered READY; after an answer RUNNING or
\* STOPPING the cell sleeps, and after the sleep it polls again.
C14_ExitsOnlyOnReady ==
    [][ /\ (crawl_pc # "finished" /\ crawl_pc' = "finished") =>
              (crawl_pc = "poll" /\ state' = "READY" /\ CrawlerState(crawler) = "READY")
        /\ (crawl_pc = "poll" /\ crawl_pc' # "raised" /\ crawl_pc' # "poll"
              /\ CrawlerState(crawler) \in {"RUNNING", "STOPPING"}) =>
              (crawl_pc' = "sleeping" /\ state' = CrawlerState(crawler))
        /\ (crawl_pc = "sleeping" /\ crawl_pc' # "sleeping") => crawl_pc' = "poll"
      ]_vars

\* the loop has seen RUNNING or STOPPING, slept, and then ended on READY
C14_Witness ==
    /\ crawl_pc = "finished"
    /\ polls >= 2
    /\ state = "READY"
    /\ crawler = "completed"

\* C15: in every interleaving with the crawler, the 'finished' message is
\* printed only after the run asked for by start_crawler has gone through
\* RUNNING and returned to READY, so that the listing that follows finds the
\* run's tables.
C15_FinishedMeansCompleted ==
    /\ (crawl_pc \in {"finished", "listed"} => crawler = "completed")
    /\ (crawl_pc = "listed" => listed = "completed")

ProfileRunOver == prof_pc = Len(ProfileCalls) + 1

\* C17: when the cells are run top to bottom and every call succeeds, no
\* profile is used after it has been deleted, and at the end both profiles
\* the notebook created have been deleted and none of them is left.
C17_AllProfilesDeleted ==
    call_failures = 0 =>
        /\ used_deleted = {}
        /\ ProfileRunOver => (profiles = {} /\ deleted = {Sonnet, Llama})

\* a run without a failure has reached its end, both profiles created
C17_Witness ==
    /\ ProfileRunOver
    /\ call_failures = 0
    /\ arns = {Sonnet, Llama}

(***************************************************************************)
(* Properties of the response parsing functions.                           *)
(***************************************************************************)
\* C18: parse_converse_stream_response returns an empty list when the
\* response has no 'stream'; otherwise it returns a list with exactly one
\* parsed event per event of the stream, in stream order, and the parsed
\* event of an event whose eventType is messageStart, contentBlockStart,
\* contentBlockDelta, contentBlockStop, messageStop or metadata has that
\* eventType as its 'type'.
C18_OneParsedEventPerEvent ==
    (parse_pc = "parsed" /\ api_response.api = "converse_stream") =>
        /\ ~parsed_output.none
        /\ ~api_response.present => parsed_output.list = <<>>
        /\ api_response.present =>
             /\ Len(parsed_output.list) = Len(api_response.events)
             /\ \A j \in 1..Len(api_response.events) :
                  LET t == api_response.events[j].eventType
                  IN t \in KnownEventTypes =>
                         (parsed_output.list[j].type = t /\ "type" \in parsed_output.list[j].keys)

\* a stream of two known events after an event without a known type has been
\* parsed
C18_Witness ==
    /\ parse_pc = "parsed"
    /\ api_response.api = "converse_stream"
    /\ api_response.present
    /\ Len(api_response.events) = 3
    /\ api_response.events[1].eventType = "ping"
    /\ api_response.events[2].eventType = "contentBlockDelta"
    /\ api_response.events[3].eventType = "messageStop"
    /\ parsed_output.list[3].type = "messageStop"

\* the events of the stream that carry a 'chunk', by position
ChunkEvents(events) == {j \in 1..Len(events) : events[j].chunk # "absent"}

NthChunkEvent(events, n) ==
    CHOOSE j \in ChunkEvents(events) : Cardinality({m \in ChunkEvents(events) : m <= j}) = n

\* C19: parse_invoke_model_response and parse_invoke_model_with_stream return
\* None, without raising, when the response has no 'body'; when it has one,
\* parse_invoke_model_with_stream returns one decoded JSON value per event of
\* the stream that carries a 'chunk', in stream order, events without a
\* 'chunk' being skipped.
C19_NoneWithoutBody ==
    /\ (parse_pc # "parse" /\ ~api_response.present
        /\ api_response.api \in {"invoke_model", "invoke_model_with_response_stream"}) =>
           (parse_pc = "parsed" /\ parsed_output.none)
    /\ (parse_pc # "parse" /\ api_response.api = "invoke_model_with_response_stream"
        /\ api_response.present) =>
           /\ parse_pc = "parsed"
           /\ ~parsed_output.none
           /\ Len(parsed_output.list) = Cardinality(ChunkEvents(api_response.events))
           /\ \A n \in 1..Len(parsed_output.list) :
                parsed_output.list[n].value =
                    json_loads(api_response.events[NthChunkEvent(api_response.events, n)].chunk)

\* two different chunks with an event without a chunk between them have been
\* parsed
C19_Witness ==
    /\ parse_pc = "parsed"
    /\ api_response.api = "invoke_model_with_response_stream"
    /\ Len(api_response.events) = 3
    /\ api_response.events[2].chunk = "absent"
    /\ Len(parsed_output.list) = 2
    /\ parsed_output.list[1].value # parsed_output.list[2].value

(***************************************************************************)
(* Precedence of the answer over the tool call.                            *)
(***************************************************************************)
\* C20: when the output of an iteration holds both '<answer>' and a
\* <function_calls> block, in either order, single_retriever_step calls no
\* function and returns done = True, and the loop stops at that iteration.
C20_AnswerBeforeToolCall ==
    [][ (/\ pc = "loop"
         /\ last' # last
         /\ Contains(last'.out, T_ANSWER)
         /\ Contains(last'.out, T_FUNCTION_CALLS)) =>
            /\ CallsOf(log') = CallsOf(log)
            /\ last'.res.st = "ok"
            /\ done' = TRUE
            /\ pc' = "done"
            /\ i' = i
      ]_vars

\* after an iteration that called a tool, the loop has stopped at an output
\* whose well-formed get_weather block comes before its answer
C20_Witness ==
    /\ pc = "done"
    /\ i = 1
    /\ CountEv(log, "call") = 1
    /\ Contains(last.out, T_ANSWER)
    /\ last.out[1] = T_FUNCTION_CALLS
    /\ last.out[2] = CallWeather

(***************************************************************************)
(* Termination of the crawler wait loop.                                   *)
(***************************************************************************)
\* the cell is in its while True loop
InWaitLoop == crawl_pc \in {"poll", "sleeping"}

\* a pass of the loop in which get_crawler answered READY
ObservesReady ==
    /\ crawl_pc = "poll"
    /\ crawl_pc' \notin {"poll", "raised"}
    /\ state' = "READY"

\* C21 (as stated): the wait loop ends in the pass in which a poll observes
\* READY, and in an execution where no poll observes READY the cell stays in
\* the loop for ever.
C21_EndsOnlyOnReady ==
    /\ [][ObservesReady => crawl_pc' = "finished"]_vars
    /\ [](InWaitLoop => ([](state # "READY") => []InWaitLoop))

\* C21 (amended): the wait loop has no bound on its passes.  It ends in the
\* pass in which a poll observes READY; a get_crawler that raises ends the
\* cell with the exception; in an execution where neither happens the cell
\* stays in the loop for ever, however many polls it has made; and once the
\* run is over the loop does end, at the next poll.
C21_EndsOnReadyOrFailure ==
    /\ [][ObservesReady => crawl_pc' = "finished"]_vars
    /\ [][(InWaitLoop /\ ~InWaitLoop') =>
            \/ ObservesReady
            \/ crawl_pc = "poll" /\ crawl_pc' = "raised" /\ state' = state]_vars
    /\ [](InWaitLoop => ([](state # "READY" /\ crawl_pc # "raised") => []InWaitLoop))
    /\ ((InWaitLoop /\ crawler = "completed") ~> ~InWaitLoop)

\* the crawler is still running and the cell still waiting after as many
\* polls as are counted, none of which has observed READY
C21_Witness ==
    /\ crawl_pc = "sleeping"
    /\ polls = MaxPolls
    /\ state = "RUNNING"
    /\ crawler = "running"

====
